---- MODULE Spec2Model ----
(***************************************************************************)
(* Brokex hourly analyzer (src/index.js): the streaming price feed with    *)
(* its reconnect loop, the live price cache, the hourly analysis run, the  *)
(* deferred outcome check and the asynchronous appends to the two logs.    *)
(*                                                                         *)
(* Conventions.  A JavaScript value that may be null/undefined is a        *)
(* sequence of length at most one: Null is <<>>, a present value x is      *)
(* <<x>>.  A JavaScript number is a record [fin, v]: fin is what           *)
(* Number.isFinite answers and v the value when it is finite.  Scores are  *)
(* counted in half points (decideSignal only adds 1 and 0.5) and the       *)
(* recorded weightedScore in thousandths (toFixed(3)).  Wall-clock fields  *)
(* (t, epoch, tCheck) and the candle close carried in perTF are left out:  *)
(* nothing below reads them.                                               *)
(*                                                                         *)
(* The functions of the file that keep no state (the indicators, the       *)
(* scorer, the aggregation of analyzeAsset) are also followed on their     *)
(* own: the variable call holds one call, its arguments drawn from bounded *)
(* sets at the start, and the one step of such a behaviour is its return.  *)
(* While the program runs, call is Null.                                   *)
(***************************************************************************)
EXTENDS Integers, Sequences, FiniteSets, TLC

VARIABLES
  sockets,         \* readyState of every WebSocket not yet closed, in creation order
  reconnectTimers, \* delays of the pending setTimeout(startWss, ...) timers
  inbox,           \* the frame received on the open socket and not yet handled
  livePrices,      \* the cache: key -> Null or <<tick>>
  appliedMaxTs,    \* per key, the latest timestamp among the ticks applied so far (0: none)
  failures,        \* closes since a socket last opened, counted up to MaxFailures
  schedTimer,      \* "start": the first setTimeout is pending; "interval": setInterval runs
  runsStarted,     \* how many times runAllAssets was started
  runs,            \* the runAllAssets calls in progress, each awaiting one fetch
  analyses,        \* the closures of analyzeAsset, one per Analysis produced
  checkTimers,     \* indices (into analyses) whose deferred check is pending
  outcomes,        \* the outcome objects built by the deferred checks, in order
  appends,         \* fs.appendFile calls in flight
  analysesFile,    \* lines of data/analyses.jsonl
  outcomesFile,    \* lines of data/outcomes.jsonl
  errLog,          \* instruments named by the "[ERR] analyze asset" lines, in order
  writeErrors,     \* what the "append error" lines were logged for, in order
  call             \* a function called on its own: its arguments and what it returned

feedVars == <<sockets, reconnectTimers, inbox, livePrices, appliedMaxTs, failures>>
runVars  == <<schedTimer, runsStarted, runs, analyses, checkTimers, outcomes,
              appends, analysesFile, outcomesFile, errLog, writeErrors, call>>
vars     == <<sockets, reconnectTimers, inbox, livePrices, appliedMaxTs, failures,
              schedTimer, runsStarted, runs, analyses, checkTimers, outcomes,
              appends, analysesFile, outcomesFile, errLog, writeErrors, call>>

---------------------------------------------------------------------------
(* Bounds of the model *)

NumAssets  == 1   \* how many of ASSET_IDS a run goes through
BatchAssets == 2  \* the same, where the run is followed through a batch
MaxRuns    == 1   \* how many times the scheduler starts runAllAssets
MaxScore2  == 2   \* per-timeframe scores range over -MaxScore2..MaxScore2 half points
MaxId      == 1   \* numeric identifiers in stream payloads: 0..MaxId
MaxPrice   == 2   \* prices in stream payloads: 1..MaxPrice
MaxTs      == 2   \* timestamps in stream payloads: 1..MaxTs
MaxEntries == 2   \* entries of one stream message
MaxFailures == 2  \* consecutive closes told apart
MaxAggScore2 == 4 \* per-timeframe scores given to the aggregator on its own, in half points
MaxEma     == 2   \* the two EMAs given to the scorer on its own: 0..MaxEma
MaxCandles == 50  \* lengths of the series given to the indicators: 0..MaxCandles
CciPeriod  == 2   \* the period CCI is called with on candles with values
MaxCciLen  == 3   \* how many such candles: 0..MaxCciLen
MaxQuote   == 2   \* their highs, lows and closes: 1..MaxQuote

---------------------------------------------------------------------------
(* Configuration *)

ASSET_IDS == <<0, 1, 5500, 5000, 5002>>

TIMEFRAMES ==
  << [label |-> "15m", interval |-> 900,   weight |-> 1],
     [label |-> "1h",  interval |-> 3600,  weight |-> 2],
     [label |-> "1d",  interval |-> 86400, weight |-> 3] >>

RECONNECT_DELAY_MS == 3000

ANALYSES_FILE == "analyses.jsonl"
OUTCOMES_FILE == "outcomes.jsonl"

---------------------------------------------------------------------------
(* JavaScript values *)

Null == <<>>
Some(x) == <<x>>
Val(o) == o[1]

Num(n) == [fin |-> TRUE, v |-> n]
NaN == [fin |-> FALSE, v |-> 0]

\* A JSON value found in a payload: kind "absent" (no such property), "null",
\* "number" n, "numstr" (a string that spells the number n) or "text" (any
\* other string).
Json(k, n) == [k |-> k, n |-> n]
JAbsent == Json("absent", 0)
JNull   == Json("null", 0)
JText   == Json("text", 0)
JNum(n) == Json("number", n)

\* Number(x) for x a JSON value that is an own property.
ToNumber(j) ==
  CASE j.k = "number" -> Num(j.n)
    [] j.k = "numstr" -> Num(j.n)
    [] j.k = "null"   -> Num(0)
    [] OTHER          -> NaN

\* parseFloat(x): x is turned into a string first, so null and undefined
\* spell "null" and "undefined", which parse to NaN.
ParseFloat(j) ==
  CASE j.k = "number" -> Num(j.n)
    [] j.k = "numstr" -> Num(j.n)
    [] OTHER          -> NaN

ToUpperCase(s) ==
  CASE s = "eur_usd" -> "EUR_USD"
    [] s = "btc_usd" -> "BTC_USD"
    [] OTHER         -> s

---------------------------------------------------------------------------
(* The stream messages *)

\* One [pairKey, payload] pair of Object.entries(data).  item says whether
\* payload?.instruments?.[0] is truthy; id is payload.id, the other fields
\* are those of the item.  The item always carries a timestamp, so the
\* Date.now() fallback of line 46 is not taken.
Entry(key, item, id, price, ts, pair) ==
  [key |-> key, item |-> item, id |-> id, currentPrice |-> price,
   timestamp |-> ts, tradingPair |-> pair]

PairKeys == <<"EURUSD_1", "BTCUSD_2", "XAUUSD_3">>

IdValues == {JAbsent, JNull, JText} \cup {JNum(n) : n \in 0..MaxId}
PriceValues == {JText} \cup {JNum(p) : p \in 1..MaxPrice}

\* The entries that can stand at position i of a message.
EntriesAt(i) ==
  {Entry(PairKeys[i], FALSE, JAbsent, JAbsent, 1, Null)}
  \cup {Entry(PairKeys[i], TRUE, id, p, ts, Some("eur_usd")) :
          id \in IdValues, p \in PriceValues, ts \in 1..MaxTs}

RECURSIVE EntrySeqs(_)
EntrySeqs(n) ==
  IF n = 0 THEN {<<>>}
  ELSE {Append(s, e) : s \in EntrySeqs(n - 1), e \in EntriesAt(n)}

\* What the socket can deliver: text that is no JSON, the JSON null, or a
\* dictionary of up to MaxEntries payloads.
Messages ==
  {[kind |-> "garbage", entries |-> <<>>], [kind |-> "null", entries |-> <<>>]}
  \cup {[kind |-> "dict", entries |-> s] :
          s \in UNION {EntrySeqs(n) : n \in 0..MaxEntries}}

\* The keys the cache can get: the identifiers of the payloads and the
\* instruments the runs look up.
CacheKeys == (0..MaxId) \cup {ASSET_IDS[i] : i \in 1..NumAssets}
               \cup {ASSET_IDS[i] : i \in 1..BatchAssets}

\* Well-formed one-entry messages for the analysed instruments.
TickMessages ==
  {[kind |-> "dict",
    entries |-> <<Entry(PairKeys[1], TRUE, JNum(ASSET_IDS[i]), JNum(p), 1, Some("eur_usd"))>>] :
      i \in 1..NumAssets, p \in 1..MaxPrice}

---------------------------------------------------------------------------
(* The message handler, lines 37-54 *)

\* const id = hasOwnProperty(payload, "id") ? Number(payload.id) : undefined
EntryId(e) == IF e.id.k # "absent" THEN ToNumber(e.id) ELSE NaN

\* const price = parseFloat(item.currentPrice)
EntryPrice(e) == ParseFloat(e.currentPrice)

\* item.tradingPair?.toUpperCase?.() ?? String(pairKey)
EntryPair(e) ==
  IF e.tradingPair # Null THEN ToUpperCase(Val(e.tradingPair)) ELSE e.key

\* The guard of line 47, after the early return of line 43.
EntryApplies(e) == e.item /\ EntryId(e).fin /\ EntryPrice(e).fin

EntryTick(e) == [price |-> EntryPrice(e).v, ts |-> e.timestamp, pair |-> EntryPair(e)]

\* A faulty variant: a tick replaces the cached one only when its timestamp is not older.
ApplyEntryIfNewer(cache, e) ==
  IF EntryApplies(e)
       /\ (cache[EntryId(e).v] = Null \/ Val(cache[EntryId(e).v]).ts <= e.timestamp)
    THEN [cache EXCEPT ![EntryId(e).v] = Some(EntryTick(e))]
    ELSE cache

\* A faulty variant: the cache is replaced by a map holding the new tick alone.
ApplyEntryDropsOthers(cache, e) ==
  IF EntryApplies(e)
    THEN [k \in DOMAIN cache |-> IF k = EntryId(e).v THEN Some(EntryTick(e)) ELSE Null]
    ELSE cache

\* One turn of the forEach callback, lines 41-50.
ApplyEntry(cache, e) ==
  IF EntryApplies(e)
    THEN [cache EXCEPT ![EntryId(e).v] = Some(EntryTick(e))]
    ELSE cache

RECURSIVE ApplyEntries(_, _)
ApplyEntries(cache, es) ==
  IF es = <<>> THEN cache
  ELSE ApplyEntries(ApplyEntry(cache, Head(es)), Tail(es))

\* The whole handler: JSON.parse or Object.entries throwing is caught at
\* line 51 and leaves the cache as it was.
HandleMessage(cache, m) ==
  IF m.kind = "dict" THEN ApplyEntries(cache, m.entries) ELSE cache

Max(a, b) == IF a >= b THEN a ELSE b

RECURSIVE NoteApplied(_, _)
NoteApplied(seen, es) ==
  IF es = <<>> THEN seen
  ELSE LET e == Head(es) IN
       NoteApplied(IF EntryApplies(e)
                     THEN [seen EXCEPT ![EntryId(e).v] = Max(@, e.timestamp)]
                     ELSE seen,
                   Tail(es))

---------------------------------------------------------------------------
(* The feed: startWss, lines 30-65 *)

Connected == \E i \in 1..Len(sockets) : sockets[i] = "open"

RemoveAt(s, i) == SubSeq(s, 1, i - 1) \o SubSeq(s, i + 1, Len(s))

\* startWss(): new WebSocket(WSS_URL), line 31.
StartWss(socks) == Append(socks, "connecting")

\* "open", lines 33-35: logs.
WsOpen ==
  \E i \in 1..Len(sockets) :
    /\ inbox = Null
    /\ sockets[i] = "connecting"
    /\ sockets' = [sockets EXCEPT ![i] = "open"]
    /\ failures' = 0
    /\ UNCHANGED <<reconnectTimers, inbox, livePrices, appliedMaxTs, runVars>>

\* A frame arrives on the open socket.
WsFrame(msgs) ==
  \E i \in 1..Len(sockets), m \in msgs :
    /\ inbox = Null
    /\ sockets[i] = "open"
    /\ inbox' = Some(m)
    /\ UNCHANGED <<sockets, reconnectTimers, livePrices, appliedMaxTs, failures, runVars>>

\* "message", lines 37-54.
OnMessage ==
  /\ inbox # Null
  /\ livePrices' = HandleMessage(livePrices, Val(inbox))
  /\ appliedMaxTs' = IF Val(inbox).kind = "dict"
                       THEN NoteApplied(appliedMaxTs, Val(inbox).entries)
                       ELSE appliedMaxTs
  /\ inbox' = Null
  /\ UNCHANGED <<sockets, reconnectTimers, failures, runVars>>

\* A faulty variant: the "error" handler schedules a reconnect of its own.
OnErrorTimersReconnects(timers) == Append(timers, RECONNECT_DELAY_MS)

\* What the "error" handler does to the pending timers, lines 61-63: it logs.
OnErrorTimers(timers) == timers

\* "error": a failed handshake or a broken stream.  The socket stops
\* delivering frames; ws emits "close" for it afterwards.
WsError ==
  \E i \in 1..Len(sockets) :
    /\ inbox = Null
    /\ sockets[i] \in {"connecting", "open"}
    /\ sockets' = [sockets EXCEPT ![i] = "closing"]
    /\ reconnectTimers' = OnErrorTimers(reconnectTimers)
    /\ UNCHANGED <<inbox, livePrices, appliedMaxTs, failures, runVars>>

\* A faulty variant: the "close" handler schedules two reconnects.
OnCloseTimersTwice(timers) == Append(Append(timers, RECONNECT_DELAY_MS), RECONNECT_DELAY_MS)

\* What the "close" handler does to the pending timers, lines 56-59:
\* setTimeout(startWss, 3000).
OnCloseTimers(timers) == Append(timers, RECONNECT_DELAY_MS)

\* A faulty variant: the cache is emptied when the connection closes.
OnCloseCacheCleared(cache) == [k \in DOMAIN cache |-> Null]

\* What the "close" handler does to the cache, lines 56-59: nothing.
OnCloseCache(cache) == cache

\* "close" of socket i: after an error, or the server ending an open stream.
WsClose(i) ==
  /\ inbox = Null
  /\ sockets[i] \in {"open", "closing"}
  /\ sockets' = RemoveAt(sockets, i)
  /\ reconnectTimers' = OnCloseTimers(reconnectTimers)
  /\ livePrices' = OnCloseCache(livePrices)
  /\ failures' = IF failures < MaxFailures THEN failures + 1 ELSE failures
  /\ UNCHANGED <<inbox, appliedMaxTs, runVars>>

WsCloseAny == \E i \in 1..Len(sockets) : WsClose(i)

\* The close that ws emits after an error.
WsCloseAfterError == \E i \in 1..Len(sockets) : sockets[i] = "closing" /\ WsClose(i)

\* A reconnect timer fires: startWss().
ReconnectFire ==
  /\ reconnectTimers # <<>>
  /\ reconnectTimers' = Tail(reconnectTimers)
  /\ sockets' = StartWss(sockets)
  /\ UNCHANGED <<inbox, livePrices, appliedMaxTs, failures, runVars>>

FeedInit ==
  /\ sockets = StartWss(<<>>)          \* line 65
  /\ reconnectTimers = <<>>
  /\ inbox = Null
  /\ livePrices = [k \in CacheKeys |-> Null]   \* line 28
  /\ appliedMaxTs = [k \in CacheKeys |-> 0]
  /\ failures = 0

\* Nothing has run yet: the first timeout of line 369 is pending.
RunIdle ==
  /\ schedTimer = "start"
  /\ runsStarted = 0
  /\ runs = <<>>
  /\ analyses = <<>>
  /\ checkTimers = {}
  /\ outcomes = <<>>
  /\ appends = <<>>
  /\ analysesFile = <<>>
  /\ outcomesFile = <<>>
  /\ errLog = <<>>
  /\ writeErrors = <<>>

\* The program runs: no function is called on its own.
Init == FeedInit /\ RunIdle /\ call = Null

\* The feed alone, with every message the socket can deliver.
FeedNext ==
  \/ WsOpen
  \/ WsFrame(Messages)
  \/ OnMessage
  \/ WsError
  \/ WsCloseAny
  \/ ReconnectFire

FeedSpec == Init /\ [][FeedNext]_vars

\* ws emits "close" after "error", the event loop runs the handler of a
\* received frame, and a timer that is due fires.
FeedFairness ==
  /\ WF_vars(WsCloseAfterError)
  /\ WF_vars(OnMessage)
  /\ WF_vars(ReconnectFire)

FairFeedSpec == FeedSpec /\ FeedFairness

---------------------------------------------------------------------------
(* The indicators, lines 69-195, by the lengths of their series *)

(* An indicator is followed here on a series of n elements whose values are  *)
(* left out: what it returns is Null, or the fields of its result, each      *)
(* Null (null or undefined) or a number.  A number that comes out of an      *)
(* average keeps how many values its first sum adds up (terms) and what      *)
(* that sum is divided by, or the window it is taken for (by).  A function   *)
(* that returns one number returns the field value.                          *)
Mean(terms, by) == Some([terms |-> terms, by |-> by])
Full(p) == Mean(p, p)
One(field) == Some([value |-> field])

Min(a, b) == IF a <= b THEN a ELSE b
Abs(x) == IF x < 0 THEN 0 - x ELSE x
Monus(a, b) == IF a >= b THEN a - b ELSE 0

\* Lines 69-74; the sum runs over the last p elements.
SMA(n, p) == IF n < p THEN Null ELSE One(Full(p))

\* Lines 75-81; the seed is SMA(arr.slice(0, p), p).
EMA(n, p) == IF n < p THEN Null ELSE SMA(p, p)

\* Lines 82-88.
stddev(n, p) == IF n < p THEN Null ELSE One(Full(p))

\* Lines 89-107; the first averages are over the p differences closes[1..p].
RSI(n, p) == IF n < p + 1 THEN Null ELSE One(Mean(Min(p, n - 1), p))

\* Lines 108-127; series has one element per index from max(fast, slow) on.
MACD(n, fast, slow, signal) ==
  IF n < slow + signal THEN Null
  ELSE LET seriesLen  == n - Max(fast, slow)
           signalVal  == EMA(seriesLen, signal)
           prevLen    == seriesLen - 1
           prevSignal == IF prevLen > 0 THEN EMA(prevLen, signal) ELSE Null
           prevMacd   == IF prevLen > 0 THEN Full(slow) ELSE Null
       IN Some([macd     |-> Full(slow),
                signal   |-> IF signalVal # Null THEN Val(signalVal).value ELSE Null,
                hist     |-> Full(slow),
                prevHist |-> IF prevMacd # Null /\ prevSignal # Null
                               THEN Val(prevSignal).value ELSE Null])

\* Lines 128-133.
Bollinger(n, p) ==
  IF n < p THEN Null
  ELSE Some([mid   |-> Val(SMA(n, p)).value,
             upper |-> Val(stddev(n, p)).value,
             lower |-> Val(stddev(n, p)).value])

\* The length of smooth(arr, p), lines 143-147, and of dArr, line 150: one
\* element per index from p - 1 on, each the SMA of a slice of at least p
\* elements.
SmoothLen(len, p) == Monus(len + 1, p)

\* arr.at(-k) of an array of len averages over p: undefined when it has no
\* such element.
At(len, k, p) == IF len >= k THEN Full(p) ELSE Null

\* Lines 134-156.
Stoch(n, kP, dP, smoothK) ==
  IF n < kP + dP THEN Null
  ELSE LET kLen   == Monus(n + 1, kP)
           kSmLen == SmoothLen(kLen, smoothK)
           dLen   == SmoothLen(kSmLen, dP)
       IN Some([K     |-> At(kSmLen, 1, smoothK),
                D     |-> At(dLen, 1, dP),
                prevK |-> At(kSmLen, 2, smoothK),
                prevD |-> At(dLen, 2, dP)])

\* The length of wSmooth(arr, p), lines 180-185: the sum of the first p
\* elements, then one element per index from p on.
WSmoothLen(len, p) == 1 + Monus(len, p)

\* Lines 166-195; tr, plusDM and minusDM have one element per index from 1
\* on; adx starts as the sum of dx.slice(0, p) divided by p.
ADX(n, p) ==
  IF n < p + 1 THEN Null
  ELSE LET trLen == n - 1
           dxLen == WSmoothLen(trLen, p)
       IN Some([adx     |-> Mean(Min(p, dxLen), p),
                plusDI  |-> Mean(Min(p, trLen), p),
                minusDI |-> Mean(Min(p, trLen), p)])

---------------------------------------------------------------------------
(* CCI, lines 157-165, on candles with values *)

RECURSIVE SumSeq(_)
SumSeq(xs) == IF xs = <<>> THEN 0 ELSE Head(xs) + SumSeq(Tail(xs))

\* arr.slice(-p) for Len(arr) >= p
LastP(arr, p) == SubSeq(arr, Len(arr) - p + 1, Len(arr))

\* With tp3[i] = highs[i] + lows[i] + closes[i] (three times the typical
\* price) and S the sum of the last p of them: lastTP - sma is
\* (p * tp3[last] - S) / 3p and meanDev is D / 3p^2 for D the sum of
\* |p * tp3[i] - S| over the window, so the quotient of line 164 is
\* 200 * p * (p * tp3[last] - S) / 3D.  It is kept rounded down to a whole
\* number; x / 0 is NaN for x = 0 and an infinity otherwise, neither finite.
CCI(highs, lows, closes, p) ==
  IF Len(closes) < p THEN Null
  ELSE LET tp3   == [i \in 1..Len(closes) |-> highs[i] + lows[i] + closes[i]]
           slice == LastP(tp3, p)
           S     == SumSeq(slice)
           D     == SumSeq([i \in 1..p |-> Abs(p * slice[i] - S)])
           N     == p * tp3[Len(tp3)] - S
       IN IF D = 0 THEN Some(NaN) ELSE Some(Num((200 * p * N) \div (3 * D)))

---------------------------------------------------------------------------
(* The scorer: decideSignal, lines 198-244 *)

\* a < b and a > b on JavaScript numbers: false when either is NaN.
Lt(a, b) == a.fin /\ b.fin /\ a.v < b.v
Gt(a, b) == a.fin /\ b.fin /\ a.v > b.v

\* if (x) for x null or a number: null, 0 and NaN are falsy.
Truthy(o) == o # Null /\ Val(o).fin /\ Val(o).v # 0

\* Lines 201-204, in half points.
TrendPoints(ema50, ema200) ==
  IF Truthy(ema50) /\ Truthy(ema200)
    THEN IF Gt(Val(ema50), Val(ema200)) THEN 2 ELSE 0 - 2
    ELSE 0

\* Lines 205-208.
RsiPoints(rsi) ==
  IF rsi # Null
    THEN IF Lt(Val(rsi), Num(30)) THEN 2
         ELSE IF Gt(Val(rsi), Num(70)) THEN 0 - 2 ELSE 0
    ELSE 0

\* Lines 209-215.
MacdPoints(macd) ==
  IF macd # Null
    THEN LET m == Val(macd) IN
         IF Gt(m.macd, m.signal) /\ (m.prevHist = Null \/ Gt(m.hist, Val(m.prevHist))) THEN 2
         ELSE IF Lt(m.macd, m.signal) /\ (m.prevHist = Null \/ Lt(m.hist, Val(m.prevHist)))
           THEN 0 - 2
         ELSE 0
    ELSE 0

\* pos <= num/den and pos >= num/den for pos = d / w with integers d and
\* w >= 0, den > 0: d / 0 is NaN for d = 0 and otherwise an infinity of the
\* sign of d.
QuotLe(d, w, num, den) == IF w > 0 THEN d * den <= num * w ELSE d < 0
QuotGe(d, w, num, den) == IF w > 0 THEN d * den >= num * w ELSE d > 0

\* Lines 216-220: pos = (close - bb.lower) / (bb.upper - bb.lower).
BollingerPoints(bb, close) ==
  IF bb # Null
    THEN LET d == close - Val(bb).lower
             w == Val(bb).upper - Val(bb).lower
         IN IF QuotLe(d, w, 1, 10) THEN 1
            ELSE IF QuotGe(d, w, 9, 10) THEN 0 - 1 ELSE 0
    ELSE 0

\* Lines 221-226.
AdxPoints(adx) ==
  IF adx # Null
    THEN IF Gt(Val(adx).adx, Num(25))
           THEN IF Gt(Val(adx).plusDI, Val(adx).minusDI) THEN 1 ELSE 0 - 1
           ELSE 0
    ELSE 0

\* Lines 227-233.
StochPoints(stoch) ==
  IF stoch # Null /\ Val(stoch).prevK # Null /\ Val(stoch).prevD # Null
    THEN LET st == Val(stoch) IN
         IF Lt(Val(st.prevK), Val(st.prevD)) /\ Gt(st.K, st.D) /\ Lt(st.K, Num(20)) THEN 1
         ELSE IF Gt(Val(st.prevK), Val(st.prevD)) /\ Lt(st.K, st.D) /\ Gt(st.K, Num(80))
           THEN 0 - 1
         ELSE 0
    ELSE 0

\* Lines 234-237.
CciPoints(cci) ==
  IF cci # Null
    THEN IF Lt(Val(cci), Num(0 - 100)) THEN 1
         ELSE IF Gt(Val(cci), Num(100)) THEN 0 - 1 ELSE 0
    ELSE 0

\* The score and the verdict decideSignal returns, the score in half points
\* (+score.toFixed(2) leaves a multiple of 0.5 as it is); the notes are left
\* out.
decideSignal(ind) ==
  LET score == TrendPoints(ind.ema50, ind.ema200) + RsiPoints(ind.rsi) + MacdPoints(ind.macd)
               + BollingerPoints(ind.bb, ind.close) + AdxPoints(ind.adx)
               + StochPoints(ind.stoch) + CciPoints(ind.cci)
  IN [score   |-> score,
      verdict |-> IF score >= 3 THEN "LEAN LONG"
                  ELSE IF score <= 0 - 3 THEN "LEAN SHORT"
                  ELSE "NEUTRAL / WAIT"]

---------------------------------------------------------------------------
(* The aggregator: analyzeAsset, lines 275-306 *)

\* The scores analyzeOneTF can resolve with, in half points.
TFScores == (0 - MaxScore2)..MaxScore2

RECURSIVE SumWeights(_)
SumWeights(tfs) ==
  IF tfs = <<>> THEN 0 ELSE Head(tfs).weight + SumWeights(Tail(tfs))

\* const totalW = TIMEFRAMES.reduce((a, b) => a + b.weight, 0)
TotalW == SumWeights(TIMEFRAMES)

\* perTF.reduce((a, r) => a + r.score * r.weight, 0), in half points
RECURSIVE WeightedSum2(_)
WeightedSum2(perTF) ==
  IF perTF = <<>> THEN 0
  ELSE Head(perTF).score * Head(perTF).weight + WeightedSum2(Tail(perTF))

\* Math.sign
Sign(x) == IF x > 0 THEN 1 ELSE IF x < 0 THEN 0 - 1 ELSE 0

\* A faulty variant: the score is cut to a whole number before it is recorded.
ToFixed3Whole(n, d) == Sign(n) * (Abs(n) \div d) * 1000

\* +(n/d).toFixed(3) in thousandths, d > 0: the nearest thousandth, a tie
\* going away from zero.
ToFixed3(n, d) == Sign(n) * ((2000 * Abs(n) + d) \div (2 * d))

\* The weightedScore of line 300: weightedSum / totalW, rounded.
RecordedScore(perTF) == ToFixed3(WeightedSum2(perTF), 2 * TotalW)

\* A faulty variant: the two thresholds are exclusive.
GlobalVerdictStrict(perTF) ==
  IF WeightedSum2(perTF) > 2 * TotalW THEN "GLOBAL: LEAN LONG"
  ELSE IF WeightedSum2(perTF) < 0 - 2 * TotalW THEN "GLOBAL: LEAN SHORT"
  ELSE "NEUTRAL / WAIT"

\* Lines 284-286, on the unrounded weightedScore.
GlobalVerdict(perTF) ==
  IF WeightedSum2(perTF) >= 2 * TotalW THEN "GLOBAL: LEAN LONG"
  ELSE IF WeightedSum2(perTF) <= 0 - 2 * TotalW THEN "GLOBAL: LEAN SHORT"
  ELSE "NEUTRAL / WAIT"

\* live?.price ?? null and live?.pair ?? null, lines 289-291 and 311-312
SpotOf(cache, assetId) ==
  IF cache[assetId] # Null THEN Some(Val(cache[assetId]).price) ELSE Null
PairOf(cache, assetId) ==
  IF cache[assetId] # Null THEN Some(Val(cache[assetId]).pair) ELSE Null

RECURSIVE StripWeights(_)
StripWeights(perTF) ==
  IF perTF = <<>> THEN <<>>
  ELSE <<[label |-> Head(perTF).label, score |-> Head(perTF).score]>>
       \o StripWeights(Tail(perTF))

\* The record of lines 294-303.
MkRecord(assetId, perTF, cache) ==
  [assetId        |-> assetId,
   pair           |-> PairOf(cache, assetId),
   spotAtAnalysis |-> SpotOf(cache, assetId),
   weightedScore  |-> RecordedScore(perTF),
   verdict        |-> GlobalVerdict(perTF),
   perTF          |-> StripWeights(perTF)]

\* What the timer callback of line 309 closes over.
MkClosure(assetId, perTF, cache) ==
  [assetId  |-> assetId,
   spot     |-> SpotOf(cache, assetId),
   pairName |-> PairOf(cache, assetId),
   record   |-> MkRecord(assetId, perTF, cache)]

---------------------------------------------------------------------------
(* The deferred check, lines 309-340 *)

\* const predSign = Math.sign(record.weightedScore)
PredSign(c) == Sign(c.record.weightedScore)

\* A faulty variant: an unchanged price counts as a move up.
MovedUpOrFlat(spot, spotLater) ==
  IF spot # Null /\ spotLater # Null THEN Some(Val(spotLater) >= Val(spot)) ELSE Null

\* Line 316.
MovedUp(spot, spotLater) ==
  IF spot # Null /\ spotLater # Null THEN Some(Val(spotLater) > Val(spot)) ELSE Null

\* A faulty variant: a neutral prediction is judged as a short one.
CorrectNeutralAsShort(predSign, movedUp) ==
  IF movedUp # Null
    THEN IF predSign > 0 THEN Some(Val(movedUp) = TRUE)
         ELSE Some(Val(movedUp) = FALSE)
    ELSE Null

\* Lines 317-322.
Correct(predSign, movedUp) ==
  IF movedUp # Null
    THEN IF predSign > 0 THEN Some(Val(movedUp) = TRUE)
         ELSE IF predSign < 0 THEN Some(Val(movedUp) = FALSE)
         ELSE Null
    ELSE Null

\* A faulty variant: spotAtT is read from the cache again at fire time.
MkOutcomeRereadsSpot(c, cache) ==
  LET spotLater == SpotOf(cache, c.assetId) IN
  [assetId       |-> c.assetId,
   pair          |-> c.pairName,
   spotAtT       |-> spotLater,
   spotAtTplus1h |-> spotLater,
   delta         |-> IF spotLater # Null THEN Some(0) ELSE Null,
   predictedSign |-> PredSign(c),
   wasCorrect    |-> Correct(PredSign(c), MovedUp(spotLater, spotLater))]

\* The outcome of lines 324-333, for closure c and the cache at fire time.
MkOutcome(c, cache) ==
  LET spotLater == SpotOf(cache, c.assetId) IN
  [assetId       |-> c.assetId,
   pair          |-> c.pairName,
   spotAtT       |-> c.spot,
   spotAtTplus1h |-> spotLater,
   delta         |-> IF c.spot # Null /\ spotLater # Null
                       THEN Some(Val(spotLater) - Val(c.spot)) ELSE Null,
   predictedSign |-> PredSign(c),
   wasCorrect    |-> Correct(PredSign(c), MovedUp(c.spot, spotLater))]

---------------------------------------------------------------------------
(* The persistence sink: appendJsonLine, lines 343-347 *)

\* fs.appendFile(file, line, callback) is submitted; aid names the Analysis
\* the line belongs to (the line itself does not carry it).
Submit(queue, file, aid, rec) ==
  Append(queue, [file |-> file, aid |-> aid, rec |-> rec])

\* The write of appends[i] succeeds: the line is in its file.
AppendOk(i) ==
  /\ i \in 1..Len(appends)
  /\ appends' = RemoveAt(appends, i)
  /\ IF appends[i].file = ANALYSES_FILE
       THEN /\ analysesFile' = Append(analysesFile, [aid |-> appends[i].aid, rec |-> appends[i].rec])
            /\ UNCHANGED outcomesFile
       ELSE /\ outcomesFile' = Append(outcomesFile, [aid |-> appends[i].aid, rec |-> appends[i].rec])
            /\ UNCHANGED analysesFile
  /\ UNCHANGED <<feedVars, schedTimer, runsStarted, runs, analyses, checkTimers, outcomes,
                 errLog, writeErrors, call>>

\* A faulty variant: a failed write is logged and submitted again.
AppendFailRetries(i) ==
  /\ i \in 1..Len(appends)
  /\ appends' = Append(RemoveAt(appends, i), appends[i])
  /\ writeErrors' = Append(writeErrors, [file |-> appends[i].file, aid |-> appends[i].aid])
  /\ UNCHANGED <<feedVars, schedTimer, runsStarted, runs, analyses, checkTimers,
                 outcomes, analysesFile, outcomesFile, errLog, call>>

\* The write of appends[i] fails: line 345 logs the error.
AppendFail(i) ==
  /\ i \in 1..Len(appends)
  /\ appends' = RemoveAt(appends, i)
  /\ writeErrors' = Append(writeErrors, [file |-> appends[i].file, aid |-> appends[i].aid])
  /\ UNCHANGED <<feedVars, schedTimer, runsStarted, runs, analyses, checkTimers,
                 outcomes, analysesFile, outcomesFile, errLog, call>>

AppendDone == \E i \in 1..Len(appends) : AppendOk(i) \/ AppendFail(i)

---------------------------------------------------------------------------
(* The scheduler and the run: lines 350-372 *)

\* The for loop of runAllAssets moves on after the instrument run r was at;
\* last is the number of instruments the run goes through.
NextAsset(rs, r) ==
  IF rs[r].asset < rs[r].last
    THEN [rs EXCEPT ![r] = [asset |-> rs[r].asset + 1, last |-> rs[r].last, perTF |-> <<>>]]
    ELSE RemoveAt(rs, r)

\* The first timeout or the interval fires: runAllAssets() runs up to its
\* first await, the fetch of the first timeframe of the first instrument.
\* The run goes through the first n instruments of ASSET_IDS.
StartRun(n) ==
  /\ runsStarted < MaxRuns
  /\ runsStarted' = runsStarted + 1
  /\ schedTimer' = "interval"
  /\ runs' = Append(runs, [asset |-> 1, last |-> n, perTF |-> <<>>])
  /\ UNCHANGED <<feedVars, analyses, checkTimers, outcomes, appends,
                 analysesFile, outcomesFile, errLog, writeErrors, call>>

SchedulerFire == StartRun(NumAssets)

\* A faulty variant: the Analysis is produced only while the feed is connected.
CombineWhenConnected(r, perTF) ==
  LET assetId == ASSET_IDS[runs[r].asset]
      aid     == Len(analyses) + 1
      c       == MkClosure(assetId, perTF, livePrices)
  IN /\ Connected
     /\ analyses' = Append(analyses, c)
     /\ appends' = Submit(appends, ANALYSES_FILE, aid, c.record)
     /\ checkTimers' = checkTimers \cup {aid}
     /\ runs' = NextAsset(runs, r)
     /\ UNCHANGED <<feedVars, schedTimer, runsStarted, outcomes, analysesFile, outcomesFile,
                    errLog, writeErrors, call>>

\* What analyzeAsset does once its last timeframe is in: lines 281-340.
Combine(r, perTF) ==
  LET assetId == ASSET_IDS[runs[r].asset]
      aid     == Len(analyses) + 1
      c       == MkClosure(assetId, perTF, livePrices)
  IN /\ analyses' = Append(analyses, c)
     /\ appends' = Submit(appends, ANALYSES_FILE, aid, c.record)
     /\ checkTimers' = checkTimers \cup {aid}
     /\ runs' = NextAsset(runs, r)
     /\ UNCHANGED <<feedVars, schedTimer, runsStarted, outcomes, analysesFile, outcomesFile,
                    errLog, writeErrors, call>>

\* The fetch run r awaits succeeds and analyzeOneTF resolves with score s.
FetchOk(r, s) ==
  /\ r \in 1..Len(runs)
  /\ LET tf    == TIMEFRAMES[Len(runs[r].perTF) + 1]
         perTF == Append(runs[r].perTF,
                         [label |-> tf.label, score |-> s, weight |-> tf.weight])
     IN IF Len(perTF) < Len(TIMEFRAMES)
          THEN /\ runs' = [runs EXCEPT ![r].perTF = perTF]
               /\ UNCHANGED <<feedVars, schedTimer, runsStarted, analyses, checkTimers,
                              outcomes, appends, analysesFile, outcomesFile,
                              errLog, writeErrors, call>>
          ELSE Combine(r, perTF)

\* A faulty variant: a failed fetch ends the whole run.
FetchFailAborts(r) ==
  /\ r \in 1..Len(runs)
  /\ runs' = RemoveAt(runs, r)
  /\ errLog' = Append(errLog, ASSET_IDS[runs[r].asset])
  /\ UNCHANGED <<feedVars, schedTimer, runsStarted, analyses, checkTimers,
                 outcomes, appends, analysesFile, outcomesFile, writeErrors, call>>

\* The fetch run r awaits fails (line 250, or a transport error): analyzeAsset
\* rejects, runAllAssets logs it at line 355 and goes to the next instrument.
FetchFail(r) ==
  /\ r \in 1..Len(runs)
  /\ runs' = NextAsset(runs, r)
  /\ errLog' = Append(errLog, ASSET_IDS[runs[r].asset])
  /\ UNCHANGED <<feedVars, schedTimer, runsStarted, analyses, checkTimers,
                 outcomes, appends, analysesFile, outcomesFile, writeErrors, call>>

\* The fetch some run awaits completes; scores are what analyzeOneTF can
\* resolve with.
Fetched(scores) ==
  \E r \in 1..Len(runs) : (\E s \in scores : FetchOk(r, s)) \/ FetchFail(r)

FetchDone == Fetched(TFScores)

\* A faulty variant: the callback gives up when no price is cached at fire time.
EmitOutcomeIfPriced(a) ==
  IF SpotOf(livePrices, analyses[a].assetId) = Null
    THEN UNCHANGED <<outcomes, appends>>
    ELSE LET o == MkOutcome(analyses[a], livePrices) IN
         /\ outcomes' = Append(outcomes, [aid |-> a, rec |-> o])
         /\ appends' = Submit(appends, OUTCOMES_FILE, a, o)

\* The callback of line 309 builds the outcome and submits it, lines 310-334.
EmitOutcome(a) ==
  LET o == MkOutcome(analyses[a], livePrices) IN
  /\ outcomes' = Append(outcomes, [aid |-> a, rec |-> o])
  /\ appends' = Submit(appends, OUTCOMES_FILE, a, o)

\* The timer of Analysis a fires.
FireCheck(a) ==
  /\ a \in checkTimers
  /\ checkTimers' = checkTimers \ {a}
  /\ EmitOutcome(a)
  /\ UNCHANGED <<feedVars, schedTimer, runsStarted, runs, analyses,
                 analysesFile, outcomesFile, errLog, writeErrors, call>>

FireAnyCheck == \E a \in checkTimers : FireCheck(a)

---------------------------------------------------------------------------
(* The whole program *)

Next ==
  \/ WsOpen
  \/ WsFrame(TickMessages)
  \/ OnMessage
  \/ WsError
  \/ WsCloseAny
  \/ ReconnectFire
  \/ SchedulerFire
  \/ FetchDone
  \/ FireAnyCheck
  \/ AppendDone

Spec == Init /\ [][Next]_vars

\* Timers that are due fire; nothing else is assumed.
FairSpec == Spec /\ \A a \in 1..(MaxRuns * NumAssets) : WF_vars(FireCheck(a))

\* The scheduler's timers fire when due and every fetch comes to an end, with
\* a response or with an error; nothing is assumed of the feed.
FairRunSpec == Spec /\ WF_vars(SchedulerFire) /\ WF_vars(FetchDone)

\* The scores of a batch: the two ends of the range.
BatchScores == {0 - MaxScore2, MaxScore2}

\* One run through a batch of BatchAssets instruments, with the feed as far
\* as its first connection and the ticks it delivers.
BatchNext ==
  \/ WsOpen
  \/ WsFrame(TickMessages)
  \/ OnMessage
  \/ StartRun(BatchAssets)
  \/ Fetched(BatchScores)
  \/ FireAnyCheck
  \/ AppendDone

BatchSpec == Init /\ [][BatchNext]_vars

---------------------------------------------------------------------------
(* Functions called on their own *)

\* A call of fn with args that has not returned yet.
Call(fn, args) == [fn |-> fn, args |-> args, returned |-> FALSE, result |-> Null]

\* The call returns r.
Return(r) ==
  /\ call' = Some([Val(call) EXCEPT !.returned = TRUE, !.result = r])
  /\ UNCHANGED <<feedVars, schedTimer, runsStarted, runs, analyses, checkTimers, outcomes,
                 appends, analysesFile, outcomesFile, errLog, writeErrors>>

\* perTF as the loop of lines 277-280 builds it from the scores of the
\* timeframes.
PerTFOf(scores) ==
  [i \in 1..Len(TIMEFRAMES) |->
     [label |-> TIMEFRAMES[i].label, score |-> scores[i], weight |-> TIMEFRAMES[i].weight]]

AggScores == (0 - MaxAggScore2)..MaxAggScore2

\* analyzeAsset from line 281 on, for every triple of per-timeframe scores.
AggregateCalls ==
  {Call("analyzeAsset", <<s1, s2, s3>>) : s1 \in AggScores, s2 \in AggScores, s3 \in AggScores}

\* Lines 281-303: the record analyzeAsset builds.
ReturnAggregate ==
  /\ call # Null
  /\ Val(call).fn = "analyzeAsset" /\ ~Val(call).returned
  /\ Return(MkRecord(ASSET_IDS[1], PerTFOf(Val(call).args), livePrices))

AggregateInit == FeedInit /\ RunIdle /\ call \in {Some(c) : c \in AggregateCalls}

AggregateSpec == AggregateInit /\ [][ReturnAggregate]_vars

\* The indicator values the scorer is called with.
EmaValues == {Null} \cup {Some(Num(n)) : n \in 0..MaxEma}
RsiValues == {Null, Some(Num(29)), Some(Num(71))}
MacdOf(m, sig, prev) == [macd |-> Num(m), signal |-> Num(sig), hist |-> Num(m - sig), prevHist |-> prev]
MacdValues ==
  {Null, Some(MacdOf(2, 1, Null)), Some(MacdOf(2, 1, Some(Num(2)))),
   Some(MacdOf(1, 2, Some(Num(0)))), Some(MacdOf(1, 1, Null))}
BandValues == {Null, Some([lower |-> 0, upper |-> 10]), Some([lower |-> 5, upper |-> 5])}
CloseValues == {1, 5, 9}
AdxOf(a, p, m) == [adx |-> Num(a), plusDI |-> Num(p), minusDI |-> Num(m)]
AdxValues ==
  {Null, Some(AdxOf(25, 2, 1)), Some(AdxOf(26, 2, 1)), Some(AdxOf(26, 1, 2)),
   Some(AdxOf(26, 1, 1))}
StochOf(k, d, pk, pd) == [K |-> Num(k), D |-> Num(d), prevK |-> pk, prevD |-> pd]
StochValues ==
  {Null, Some(StochOf(10, 5, Null, Null)), Some(StochOf(10, 5, Some(Num(1)), Some(Num(2)))),
   Some(StochOf(90, 95, Some(Num(2)), Some(Num(1))))}
CciValues == {Null, Some(NaN), Some(Num(0 - 101)), Some(Num(101))}

SignalCalls ==
  {Call("decideSignal",
        [rsi |-> rsi, macd |-> macd, bb |-> bb, adx |-> adx, stoch |-> stoch, cci |-> cci,
         ema50 |-> ema50, ema200 |-> ema200, close |-> close]) :
     rsi \in RsiValues, macd \in MacdValues, bb \in BandValues, adx \in AdxValues,
     stoch \in StochValues, cci \in CciValues, ema50 \in EmaValues, ema200 \in EmaValues,
     close \in CloseValues}

\* Lines 198-244.
ReturnSignal ==
  /\ call # Null
  /\ Val(call).fn = "decideSignal" /\ ~Val(call).returned
  /\ Return(decideSignal(Val(call).args))

SignalInit == FeedInit /\ RunIdle /\ call \in {Some(c) : c \in SignalCalls}

SignalSpec == SignalInit /\ [][ReturnSignal]_vars

\* The indicators as analyzeOneTF calls them, lines 261-268, and SMA and
\* stddev as Bollinger calls them, on series of every length up to MaxCandles.
SeriesCalls ==
  UNION {{Call("SMA", [n |-> n, p |-> 20]),
          Call("EMA", [n |-> n, p |-> 50]),
          Call("EMA", [n |-> n, p |-> 200]),
          Call("stddev", [n |-> n, p |-> 20]),
          Call("RSI", [n |-> n, p |-> 14]),
          Call("MACD", [n |-> n, fast |-> 12, slow |-> 26, signal |-> 9]),
          Call("Bollinger", [n |-> n, p |-> 20]),
          Call("Stoch", [n |-> n, kP |-> 14, dP |-> 3, smoothK |-> 3]),
          Call("ADX", [n |-> n, p |-> 14])} : n \in 0..MaxCandles}

\* Candles with low <= close <= high, and the series of them.
Candles ==
  {c \in [high : 1..MaxQuote, low : 1..MaxQuote, close : 1..MaxQuote] :
     c.low <= c.close /\ c.close <= c.high}

RECURSIVE CandleSeqs(_)
CandleSeqs(n) ==
  IF n = 0 THEN {<<>>}
  ELSE {Append(cs, c) : cs \in CandleSeqs(n - 1), c \in Candles}

CciCalls ==
  {Call("CCI", [rows |-> rows, p |-> CciPeriod]) :
     rows \in UNION {CandleSeqs(n) : n \in 0..MaxCciLen}}

\* What the called indicator returns.
IndicatorResult(c) ==
  LET a == c.args IN
  CASE c.fn = "SMA"       -> SMA(a.n, a.p)
    [] c.fn = "EMA"       -> EMA(a.n, a.p)
    [] c.fn = "stddev"    -> stddev(a.n, a.p)
    [] c.fn = "RSI"       -> RSI(a.n, a.p)
    [] c.fn = "MACD"      -> MACD(a.n, a.fast, a.slow, a.signal)
    [] c.fn = "Bollinger" -> Bollinger(a.n, a.p)
    [] c.fn = "Stoch"     -> Stoch(a.n, a.kP, a.dP, a.smoothK)
    [] c.fn = "ADX"       -> ADX(a.n, a.p)
    [] c.fn = "CCI"       -> CCI([i \in 1..Len(a.rows) |-> a.rows[i].high],
                                 [i \in 1..Len(a.rows) |-> a.rows[i].low],
                                 [i \in 1..Len(a.rows) |-> a.rows[i].close], a.p)

IndicatorNames == {"SMA", "EMA", "stddev", "RSI", "MACD", "Bollinger", "Stoch", "ADX", "CCI"}

ReturnIndicator ==
  /\ call # Null
  /\ Val(call).fn \in IndicatorNames /\ ~Val(call).returned
  /\ Return(IndicatorResult(Val(call)))

IndicatorInit == FeedInit /\ RunIdle /\ call \in {Some(c) : c \in SeriesCalls \cup CciCalls}

IndicatorSpec == IndicatorInit /\ [][ReturnIndicator]_vars

---------------------------------------------------------------------------
(* Properties of the analysis pipeline *)

MaxAnalyses == MaxRuns * NumAssets

\* The outcome objects the deferred checks built for Analysis a.
OutcomesOf(a) == {i \in 1..Len(outcomes) : outcomes[i].aid = a}

\* The lines of a file that belong to Analysis a.
LinesOf(file, a) == {i \in 1..Len(file) : file[i].aid = a}

\* C1: an Outcome is never in the outcomes log unless its Analysis is in the
\* analyses log, and the outcomes log holds at most one Outcome per Analysis,
\* whatever the order in which the appends complete and also when the append
\* of the Analysis fails.
C1_OutcomeAfterAnalysis ==
  \A a \in 1..Len(analyses) :
    /\ LinesOf(outcomesFile, a) # {} => LinesOf(analysesFile, a) # {}
    /\ Cardinality(LinesOf(outcomesFile, a)) <= 1

\* C2: every Analysis has exactly one deferred check: while it is pending no
\* Outcome exists for the Analysis, and it always eventually fires and emits
\* exactly one Outcome, whatever the feed state and the cache hold.
C2_CheckFiresOnce ==
  /\ [](\A a \in 1..Len(analyses) :
          Cardinality({a} \cap checkTimers) + Cardinality(OutcomesOf(a)) = 1)
  /\ \A a \in 1..MaxAnalyses :
       (Len(analyses) >= a) ~> (Cardinality(OutcomesOf(a)) = 1)

\* An Outcome was emitted while the feed was down and nothing was cached.
C2_Witness ==
  /\ outcomes # <<>>
  /\ ~Connected
  /\ outcomes[1].rec.spotAtTplus1h = Null
  /\ checkTimers = {}

\* The sign of \sum score*weight / \sum weight over the per-timeframe results
\* of a record (the divisor is positive).
ExactSign(rec) ==
  LET RECURSIVE Sum(_)
      Sum(i) == IF i = 0 THEN 0
                ELSE rec.perTF[i].score * TIMEFRAMES[i].weight + Sum(i - 1)
  IN Sign(Sum(Len(rec.perTF)))

\* C4: the predictedSign of every Outcome is -1, 0 or +1 and is the sign of
\* the weighted mean of the per-timeframe scores of its parent Analysis.
C4_PredictedSign ==
  \A i \in 1..Len(outcomes) :
    /\ outcomes[i].rec.predictedSign \in {0 - 1, 0, 1}
    /\ outcomes[i].rec.predictedSign = ExactSign(analyses[outcomes[i].aid].record)

\* An Outcome predicts short for a weighted score between -1 and 0.
C4_Witness ==
  \E i \in 1..Len(outcomes) :
    /\ outcomes[i].rec.predictedSign = 0 - 1
    /\ analyses[outcomes[i].aid].record.weightedScore > 0 - 1000

\* C5: wasCorrect is indeterminate whenever predictedSign is 0 or one of the
\* two spot prices is unavailable; an Analysis whose weightedScore is 0
\* yields an indeterminate Outcome.
C5_Indeterminate ==
  \A i \in 1..Len(outcomes) :
    LET o == outcomes[i].rec IN
    /\ (o.predictedSign = 0 \/ o.spotAtT = Null \/ o.spotAtTplus1h = Null)
         => o.wasCorrect = Null
    /\ analyses[outcomes[i].aid].record.weightedScore = 0 => o.wasCorrect = Null

\* A neutral Analysis got its Outcome with both prices at hand and the price
\* having moved.
C5_Witness ==
  \E i \in 1..Len(outcomes) :
    LET o == outcomes[i].rec IN
    /\ o.predictedSign = 0
    /\ o.spotAtT # Null /\ o.spotAtTplus1h # Null
    /\ o.spotAtT # o.spotAtTplus1h
    /\ o.wasCorrect = Null

\* C6: with both spot prices at hand and a nonzero predictedSign, wasCorrect
\* is (spotAtCheckTime > spotAtAnalysis) = (predictedSign > 0), equal prices
\* included.
C6_WasCorrect ==
  \A i \in 1..Len(outcomes) :
    LET o == outcomes[i].rec IN
    (o.spotAtT # Null /\ o.spotAtTplus1h # Null /\ o.predictedSign # 0)
      => o.wasCorrect =
           Some((Val(o.spotAtTplus1h) > Val(o.spotAtT)) = (o.predictedSign > 0))

\* A short prediction judged on two equal prices.
C6_Witness ==
  \E i \in 1..Len(outcomes) :
    LET o == outcomes[i].rec IN
    /\ o.spotAtT # Null /\ o.spotAtT = o.spotAtTplus1h
    /\ o.predictedSign < 0
    /\ o.wasCorrect = Some(TRUE)

\* C7: the spot price of an Analysis is what the cache holds for the
\* instrument at the step that combines the timeframes; it is never changed
\* afterwards, and the spotAtT of the Outcome is the spotAtAnalysis of the
\* parent Analysis whatever ticks came in between.
C7_SpotFrozen ==
  /\ [][Len(analyses') > Len(analyses) =>
          LET c == analyses'[Len(analyses')] IN
          c.record.spotAtAnalysis = SpotOf(livePrices, c.assetId)]_vars
  /\ [][\A a \in 1..Len(analyses) : analyses'[a] = analyses[a]]_vars
  /\ [](\A i \in 1..Len(outcomes) :
          outcomes[i].rec.spotAtT = analyses[outcomes[i].aid].record.spotAtAnalysis)

\* The cache changed between the analysis and the check.
C7_Witness ==
  \E i \in 1..Len(outcomes) :
    LET o == outcomes[i].rec IN
    /\ o.spotAtT # Null /\ o.spotAtTplus1h # Null
    /\ o.spotAtT # o.spotAtTplus1h

---------------------------------------------------------------------------
(* Properties of the feed and of the cache *)

\* No socket is connecting or open.
FeedDown == \A i \in 1..Len(sockets) : sockets[i] \notin {"connecting", "open"}

Connecting == \E i \in 1..Len(sockets) : sockets[i] = "connecting"

\* A step in which some socket gets an "error".
ErrorStep ==
  \E i \in 1..Len(sockets) :
    /\ sockets[i] \in {"connecting", "open"}
    /\ Len(sockets') = Len(sockets)
    /\ sockets'[i] = "closing"

\* A step in which some socket gets its "close".
CloseStep == Len(sockets') < Len(sockets)

\* C3: a close leaves the feed Disconnected and schedules one reconnect timer
\* with the fixed delay; an error leaves the feed Disconnected and schedules
\* nothing itself, the close that follows does; at most one reconnect is ever
\* pending; and whenever the feed is down a new connection attempt is
\* eventually made, however often that has happened before.
C3_ReconnectLoop ==
  /\ [][CloseStep => /\ reconnectTimers' = Append(reconnectTimers, RECONNECT_DELAY_MS)
                     /\ ~Connected']_vars
  /\ [][ErrorStep => /\ reconnectTimers' = reconnectTimers
                     /\ ~Connected']_vars
  /\ [](/\ Len(reconnectTimers) <= 1
        /\ \A t \in 1..Len(reconnectTimers) : reconnectTimers[t] = RECONNECT_DELAY_MS)
  /\ \A n \in 0..MaxFailures : (FeedDown /\ failures = n) ~> Connecting

\* After MaxFailures closes in a row, of a stream that had once delivered
\* ticks, the next reconnect is pending with the same delay.
C3_Witness ==
  /\ sockets = <<>>
  /\ reconnectTimers = <<RECONNECT_DELAY_MS>>
  /\ failures = MaxFailures
  /\ \E k \in CacheKeys : livePrices[k] # Null

\* A step of the message handler.
HandlerStep == inbox # Null /\ inbox' = Null

\* The positions of the entries of message m that the handler applies to key k.
AppliedAt(m, k) ==
  IF m.kind # "dict" THEN {}
  ELSE {i \in 1..Len(m.entries) :
          EntryApplies(m.entries[i]) /\ EntryId(m.entries[i]).v = k}

Last(S) == CHOOSE i \in S : \A j \in S : j <= i

\* C8 as claimed: the cache entry of an instrument is the tick with the latest
\* embedded timestamp among those applied for it.
C8_LatestTimestampWins ==
  \A k \in CacheKeys :
    livePrices[k] # Null => Val(livePrices[k]).ts = appliedMaxTs[k]

\* C8 as amended: after a message is handled, the cache entry of every
\* instrument the message has ticks for is the tick that came last in the
\* message, whatever timestamps it and the tick held before carry.
C8_LastAppliedWins ==
  [][HandlerStep =>
       \A k \in CacheKeys :
         AppliedAt(Val(inbox), k) # {} =>
           livePrices'[k] = Some(EntryTick(Val(inbox).entries[Last(AppliedAt(Val(inbox), k))]))]_vars

\* The cache holds a tick older than one applied before it.
C8_Witness ==
  \E k \in CacheKeys :
    livePrices[k] # Null /\ Val(livePrices[k]).ts < appliedMaxTs[k]

\* C9: the cache holds at most one tick per instrument; handling a message
\* that carries one valid tick for an instrument makes that tick its entry
\* (the tick held before is gone), and handling any message leaves the entry
\* of every instrument it has no valid tick for as it was.
C9_ReplaceOne ==
  /\ [](\A k \in CacheKeys : Len(livePrices[k]) <= 1)
  /\ [][HandlerStep =>
          LET m == Val(inbox) IN
          /\ \A k \in CacheKeys : AppliedAt(m, k) = {} => livePrices'[k] = livePrices[k]
          /\ \A k \in CacheKeys :
               Cardinality(AppliedAt(m, k)) = 1 =>
                 livePrices'[k] = Some(EntryTick(m.entries[Last(AppliedAt(m, k))]))]_vars

\* One instrument had its tick replaced while another kept its own.
C9_Witness ==
  \E k1, k2 \in CacheKeys :
    /\ k1 # k2
    /\ livePrices[k1] # Null /\ livePrices[k2] # Null
    /\ Val(livePrices[k1]).price # Val(livePrices[k2]).price
    /\ appliedMaxTs[k1] > Val(livePrices[k1]).ts
    /\ appliedMaxTs[k2] = Val(livePrices[k2]).ts

\* An entry with a numeric identifier and a finite price.
WellFormed(e) ==
  /\ e.item
  /\ e.id.k \in {"number", "numstr"}
  /\ e.currentPrice.k \in {"number", "numstr"}

WellFormedAt(m, k) ==
  IF m.kind # "dict" THEN {}
  ELSE {i \in 1..Len(m.entries) : WellFormed(m.entries[i]) /\ m.entries[i].id.n = k}

\* C10: the handler always returns; an entry whose identifier is absent or
\* not numeric, or whose price is not a finite number, changes no cache
\* entry, and the well-formed entries of the message are applied all the same.
C10_MalformedSkipped ==
  [][HandlerStep =>
       LET m == Val(inbox) IN
       \A k \in CacheKeys :
         livePrices'[k] =
           IF WellFormedAt(m, k) = {} THEN livePrices[k]
           ELSE Some(EntryTick(m.entries[Last(WellFormedAt(m, k))]))]_vars

---------------------------------------------------------------------------
(* Properties of the batch *)

\* The Analyses produced for instrument id, and the error lines naming it.
AnalysesFor(id) == {a \in 1..Len(analyses) : analyses[a].assetId = id}
ErrorsFor(id) == {j \in 1..Len(errLog) : errLog[j] = id}

\* How many runs have gone past the i-th instrument: the runs that are over
\* and those that are at a later instrument.
Passed(i) ==
  (runsStarted - Len(runs)) + Cardinality({r \in 1..Len(runs) : runs[r].asset > i})

\* A step in which a fetch failure is caught and logged.
FailStep == Len(errLog') > Len(errLog)

\* C11: a fetch failure for an instrument records no Analysis and schedules
\* no check, and the run goes on with the next instrument (it ends only
\* after the last one); every time a run has gone past an instrument there
\* is either one Analysis or one error line for it, never both and never
\* neither.
C11_FailureSkipsOne ==
  /\ [][FailStep =>
          /\ analyses' = analyses
          /\ checkTimers' = checkTimers
          /\ appends' = appends
          /\ \E r \in 1..Len(runs) :
               /\ errLog' = Append(errLog, ASSET_IDS[runs[r].asset])
               /\ IF runs[r].asset < BatchAssets
                    THEN /\ Len(runs') = Len(runs)
                         /\ runs'[r].asset = runs[r].asset + 1
                         /\ runs'[r].perTF = <<>>
                    ELSE runs' = RemoveAt(runs, r)]_vars
  /\ [](\A i \in 1..BatchAssets :
          Cardinality(AnalysesFor(ASSET_IDS[i])) + Cardinality(ErrorsFor(ASSET_IDS[i]))
            = Passed(i))

\* The run is over: a fetch for the first instrument had failed, and the
\* second instrument has its Analysis.
C11_Witness ==
  /\ runsStarted >= 1 /\ runs = <<>>
  /\ errLog = <<ASSET_IDS[1]>>
  /\ AnalysesFor(ASSET_IDS[1]) = {}
  /\ AnalysesFor(ASSET_IDS[2]) # {}

\* Some run awaits the fetch of the last timeframe of an instrument.
AtLastFetch == \E r \in 1..Len(runs) : Len(runs[r].perTF) = Len(TIMEFRAMES) - 1

\* C12: whatever the state of the feed, a started run comes to its end, the
\* success of the last fetch of an instrument can always produce its
\* Analysis, and every time a run has gone past an instrument there is an
\* Analysis or a fetch error for it; the Analysis carries what the cache holds
\* for the instrument at that moment, nothing included, and is submitted to
\* the analyses log.
C12_RunsWhateverFeed ==
  /\ (runs # <<>>) ~> (runs = <<>>)
  /\ [](AtLastFetch => ENABLED (FetchDone /\ Len(analyses') = Len(analyses) + 1))
  /\ [](\A i \in 1..NumAssets :
          Cardinality(AnalysesFor(ASSET_IDS[i])) + Cardinality(ErrorsFor(ASSET_IDS[i]))
            = Passed(i))
  /\ [][Len(analyses') > Len(analyses) =>
          LET c == analyses'[Len(analyses')] IN
          /\ c.record.spotAtAnalysis = SpotOf(livePrices, c.assetId)
          /\ appends' = Append(appends, [file |-> ANALYSES_FILE, aid |-> Len(analyses'),
                                         rec |-> c.record])]_vars

\* With the feed down after repeated closes, a reconnect pending and nothing
\* cached, an Analysis without a spot price is in the analyses log.
C12_Witness ==
  /\ sockets = <<>> /\ reconnectTimers # <<>> /\ failures = MaxFailures
  /\ \A k \in CacheKeys : livePrices[k] = Null
  /\ \E i \in 1..Len(analysesFile) : analysesFile[i].rec.spotAtAnalysis = Null

\* The writes of file for Analysis a: in flight, and failed.
InFlight(file, a) == {i \in 1..Len(appends) : appends[i].file = file /\ appends[i].aid = a}
Failed(file, a) ==
  {i \in 1..Len(writeErrors) : writeErrors[i].file = file /\ writeErrors[i].aid = a}

\* A step in which a write fails.
WriteFailStep == Len(writeErrors') > Len(writeErrors)

\* C13: every Analysis, and every Outcome built, is submitted for writing
\* once: it is in flight, in its log or failed, one of the three; a failed
\* write only takes the submission away and changes nothing else; the
\* Analysis of a failed write has its check pending or its Outcome built; and
\* the run still accounts for every instrument it has gone past.
C13_WriteFailureIgnored ==
  /\ [](\A a \in 1..Len(analyses) :
          /\ Cardinality(InFlight(ANALYSES_FILE, a)) + Cardinality(LinesOf(analysesFile, a))
               + Cardinality(Failed(ANALYSES_FILE, a)) = 1
          /\ Cardinality(InFlight(OUTCOMES_FILE, a)) + Cardinality(LinesOf(outcomesFile, a))
               + Cardinality(Failed(OUTCOMES_FILE, a)) = Cardinality(OutcomesOf(a))
          /\ Failed(ANALYSES_FILE, a) # {} =>
               Cardinality({a} \cap checkTimers) + Cardinality(OutcomesOf(a)) = 1)
  /\ [][WriteFailStep =>
          /\ \E i \in 1..Len(appends) : appends' = RemoveAt(appends, i)
          /\ <<runs, runsStarted, schedTimer, analyses, checkTimers, outcomes,
                analysesFile, outcomesFile, errLog>>'
               = <<runs, runsStarted, schedTimer, analyses, checkTimers, outcomes,
                   analysesFile, outcomesFile, errLog>>]_vars
  /\ [](\A i \in 1..BatchAssets :
          Cardinality(AnalysesFor(ASSET_IDS[i])) + Cardinality(ErrorsFor(ASSET_IDS[i]))
            = Passed(i))

\* The write of the first Analysis failed before anything else was written;
\* its Outcome is in the outcomes log all the same, and the Analysis of the
\* second instrument is in the analyses log.
C13_Witness ==
  /\ writeErrors # <<>>
  /\ writeErrors[1] = [file |-> ANALYSES_FILE, aid |-> 1]
  /\ LinesOf(outcomesFile, 1) # {}
  /\ Len(analyses) = BatchAssets
  /\ LinesOf(analysesFile, 2) # {}
  /\ runs = <<>>

---------------------------------------------------------------------------
(* Properties of the aggregator and of the scorer *)

\* The call of fn has returned.
Returned(fn) == call # Null /\ Val(call).fn = fn /\ Val(call).returned

\* \sum score*weight over the per-timeframe results of a record, in half points.
RecordSum2(rec) ==
  LET RECURSIVE Sum(_)
      Sum(i) == IF i = 0 THEN 0
                ELSE rec.perTF[i].score * TIMEFRAMES[i].weight + Sum(i - 1)
  IN Sum(Len(rec.perTF))

\* The verdict goes by the recorded weightedScore, both bounds inclusive.
VerdictByRecorded(rec) ==
  /\ rec.verdict = "GLOBAL: LEAN LONG" <=> rec.weightedScore >= 1000
  /\ rec.verdict = "GLOBAL: LEAN SHORT" <=> rec.weightedScore <= 0 - 1000
  /\ rec.verdict \in {"GLOBAL: LEAN LONG", "GLOBAL: LEAN SHORT", "NEUTRAL / WAIT"}

TableTrend(ema50, ema200) ==
  IF ema50 # Null /\ ema200 # Null
    THEN IF Gt(Val(ema50), Val(ema200)) THEN 2
         ELSE IF Lt(Val(ema50), Val(ema200)) THEN 0 - 2 ELSE 0
    ELSE 0

TableAdx(adx) ==
  IF adx # Null /\ Gt(Val(adx).adx, Num(25))
    THEN IF Gt(Val(adx).plusDI, Val(adx).minusDI) THEN 1
         ELSE IF Lt(Val(adx).plusDI, Val(adx).minusDI) THEN 0 - 1 ELSE 0
    ELSE 0

TableRsi(rsi) ==
  IF rsi = Null THEN 0
  ELSE IF Val(rsi).v < 30 THEN 2 ELSE IF Val(rsi).v > 70 THEN 0 - 2 ELSE 0

TableMacd(macd) ==
  IF macd = Null THEN 0
  ELSE LET m == Val(macd)
           rising  == m.prevHist = Null \/ m.hist.v > Val(m.prevHist).v
           falling == m.prevHist = Null \/ m.hist.v < Val(m.prevHist).v
       IN IF m.macd.v > m.signal.v /\ rising THEN 2
          ELSE IF m.macd.v < m.signal.v /\ falling THEN 0 - 2 ELSE 0

\* position = (close - lower) / (upper - lower), as floating point divides.
TableBollinger(bb, close) ==
  IF bb = Null THEN 0
  ELSE LET d == close - Val(bb).lower
           w == Val(bb).upper - Val(bb).lower
       IN IF QuotLe(d, w, 1, 10) THEN 1 ELSE IF QuotGe(d, w, 9, 10) THEN 0 - 1 ELSE 0

TableStoch(stoch) ==
  IF stoch = Null THEN 0
  ELSE LET st == Val(stoch) IN
       IF st.prevK = Null \/ st.prevD = Null THEN 0
       ELSE IF Val(st.prevK).v < Val(st.prevD).v /\ st.K.v > st.D.v /\ st.K.v < 20 THEN 1
       ELSE IF Val(st.prevK).v > Val(st.prevD).v /\ st.K.v < st.D.v /\ st.K.v > 80 THEN 0 - 1
       ELSE 0

TableCci(cci) ==
  IF cci = Null \/ ~Val(cci).fin THEN 0
  ELSE IF Val(cci).v < 0 - 100 THEN 1 ELSE IF Val(cci).v > 100 THEN 0 - 1 ELSE 0

TableScore(ind) ==
  TableTrend(ind.ema50, ind.ema200) + TableRsi(ind.rsi) + TableMacd(ind.macd)
    + TableBollinger(ind.bb, ind.close) + TableAdx(ind.adx) + TableStoch(ind.stoch)
    + TableCci(ind.cci)

\* C15: the score decideSignal returns is the sum of the contributions of the
\* table: a signal contributes nothing when its indicator is absent or when
\* neither of its two conditions holds; Trend gives -1 only when
\* EMA50 < EMA200 and ADX gives -0.5 only when adx > 25 and +DI < -DI.
C15_ScoreIsTableSum ==
  Returned("decideSignal") => Val(call).result.score = TableScore(Val(call).args)

---------------------------------------------------------------------------
(* Properties of the indicators *)

\* The length of input the computation of an indicator requires.  EMA, RSI
\* and the Bollinger bands need their period (RSI one more, for the first
\* difference); MACD needs slow elements for its first value and signal
\* values for their EMA; %D is the SMA of dP smoothed %K, each the SMA of
\* smoothK raw %K, each over kP candles; ADX is the mean of p values of DX,
\* the first of which needs p true ranges, that is p + 1 candles.
Lookback(c) ==
  LET a == c.args IN
  CASE c.fn \in {"SMA", "EMA", "stddev", "Bollinger"} -> a.p
    [] c.fn = "RSI"   -> a.p + 1
    [] c.fn = "MACD"  -> a.slow + a.signal
    [] c.fn = "Stoch" -> a.kP + (a.smoothK - 1) + (a.dP - 1)
    [] c.fn = "ADX"   -> 2 * a.p
    [] c.fn = "CCI"   -> a.p

InputLength(c) == IF c.fn = "CCI" THEN Len(c.args.rows) ELSE c.args.n

\* The fields that hold the sample before the latest one.
PriorFields == {"prevHist", "prevK", "prevD"}

\* C16: an indicator returns the absent value whenever its input is shorter
\* than the lookback its computation requires; and in a result that is not
\* absent, every field of the latest sample is a number taken over a full
\* window.
C16_ShortInputAbsent ==
  (call # Null /\ Val(call).fn \in IndicatorNames /\ Val(call).returned) =>
    LET c == Val(call) IN
    /\ InputLength(c) < Lookback(c) => c.result = Null
    /\ (c.result # Null /\ c.fn # "CCI") =>
         \A f \in DOMAIN Val(c.result) \ PriorFields :
           /\ Val(c.result)[f] # Null
           /\ Val(Val(c.result)[f]).terms = Val(Val(c.result)[f]).by

\* The typical prices of the last p candles are all the same, so their mean
\* absolute deviation is zero.
FlatWindow(rows, p) ==
  /\ Len(rows) >= p
  /\ \A i, j \in (Len(rows) - p + 1)..Len(rows) :
       rows[i].high + rows[i].low + rows[i].close
         = rows[j].high + rows[j].low + rows[j].close

\* C17: CCI returns the absent value when the mean absolute deviation of the
\* typical price over the period is zero, and what it returns is never the
\* result of a division by zero.
C17_ZeroDeviationAbsent ==
  Returned("CCI") =>
    LET c == Val(call) IN
    /\ FlatWindow(c.args.rows, c.args.p) => c.result = Null
    /\ c.result # Null => Val(c.result).fin

---------------------------------------------------------------------------
(* Properties of the cache and of the connections over time *)

\* C18: no step takes an entry out of the cache, so an instrument a valid
\* tick was applied for has a price in every later state, closes and
\* reconnects included; an Outcome whose spot at analysis time is available
\* has a spot at check time and a delta.
C18_CacheKeepsEntries ==
  /\ [][\A k \in CacheKeys : livePrices[k] # Null => livePrices'[k] # Null]_vars
  /\ [](\A k \in CacheKeys : appliedMaxTs[k] > 0 => livePrices[k] # Null)
  /\ [](\A i \in 1..Len(outcomes) :
          outcomes[i].rec.spotAtT # Null =>
            /\ outcomes[i].rec.spotAtTplus1h # Null
            /\ outcomes[i].rec.delta # Null)

\* The feed is down after repeated closes, with a reconnect pending and no
\* check left to fire; the Outcome has both prices and its delta.
C18_Witness ==
  /\ sockets = <<>> /\ failures = MaxFailures /\ checkTimers = {}
  /\ \E i \in 1..Len(outcomes) :
       /\ outcomes[i].rec.spotAtT # Null
       /\ outcomes[i].rec.spotAtTplus1h # Null
       /\ outcomes[i].rec.delta # Null

\* C19: the sockets not yet closed and the pending reconnect timers are one
\* in all, so at most one socket is connecting or open and none while a
\* reconnect is pending; a close takes its socket away and schedules one
\* reconnect; and a socket is created only by a reconnect timer firing, which
\* takes that timer away.
C19_OneConnection ==
  /\ [](Len(sockets) + Len(reconnectTimers) = 1)
  /\ [](Cardinality({i \in 1..Len(sockets) : sockets[i] \in {"connecting", "open"}})
          + Len(reconnectTimers) <= 1)
  /\ [][CloseStep => /\ Len(sockets') = Len(sockets) - 1
                     /\ Len(reconnectTimers') = Len(reconnectTimers) + 1]_vars
  /\ [][Len(sockets') > Len(sockets) =>
          /\ sockets' = Append(sockets, "connecting")
          /\ reconnectTimers # <<>>
          /\ reconnectTimers' = Tail(reconnectTimers)]_vars

\* A socket created by a reconnect timer, after repeated closes, is the only
\* one, and the ticks of an earlier connection are in the cache.
C19_Witness ==
  /\ sockets = <<"connecting">> /\ reconnectTimers = <<>>
  /\ failures = MaxFailures
  /\ \E k \in CacheKeys : livePrices[k] # Null

====
